---- MODULE Spec2Model ----
(***************************************************************************)
(* Model of Trace (src/main.py): the diagram-to-graph-to-code pipeline.    *)
(*                                                                         *)
(* Text is a sequence of atoms.  An atom is either one structural          *)
(* character ( { } [ ] , : " space newline ), a code fence, a single digit *)
(* or a word (a run of letters/digits that the code never splits).         *)
(* Python strings are sequences of atoms as well, so that str(), the       *)
(* brace scan, the fence stripping and the JSON parse work on the same     *)
(* representation and are computed, not assumed.                           *)
(***************************************************************************)
EXTENDS Integers, Sequences, FiniteSets, TLC

VARIABLES pc, infer, rectangles, edges, gemini_raw, response,
          generated_code, raised, http,
          x_src, x_raw, x_keys, x_out, x_done

vars == <<pc, infer, rectangles, edges, gemini_raw, response,
          generated_code, raised, http,
          x_src, x_raw, x_keys, x_out, x_done>>

(***************************************************************************)
(* Atoms                                                                   *)
(***************************************************************************)
QUOTE == "\""
LBRACE == "{"
RBRACE == "}"
LBRACKET == "["
RBRACKET == "]"
COMMA == ","
COLON == ":"
SPACE == " "
NEWLINE == "\n"
FENCE == "<fence>"

Ws == {SPACE, NEWLINE}

DigitAtoms == {"0", "1", "2", "3", "4", "5", "6", "7", "8", "9"}

\* str.lower() on one atom (the words that occur in the inputs).
LowerAtom(a) ==
    CASE a = "Yes" -> "yes"
      [] a = "YES" -> "yes"
      [] a = "No" -> "no"
      [] a = "NO" -> "no"
      [] a = "JSON" -> "json"
      [] a = "User" -> "user"
      [] a = "Admin" -> "admin"
      [] a = "CreateOrder" -> "createorder"
      [] a = "Notify" -> "notify"
      [] a = "Orders" -> "orders"
      [] a = "Audit" -> "audit"
      [] a = "Valid" -> "valid"
      [] a = "Unknown" -> "unknown"
      [] a = "Component" -> "component"
      [] OTHER -> a

Lower(s) == [i \in 1..Len(s) |-> LowerAtom(s[i])]

\* An atom made of [A-Za-z0-9_] only: every word and digit, no punctuation.
IsWordAtom(a) ==
    a \notin {QUOTE, LBRACE, RBRACE, LBRACKET, RBRACKET, COMMA, COLON,
              SPACE, NEWLINE, FENCE, "?", "'", "(", ")", "-", "."}

\* x in s, for Python strings: s contains x as a contiguous run.
Contains(s, x) ==
    \E i \in 1..(Len(s) - Len(x) + 1) : SubSeq(s, i, i + Len(x) - 1) = x

RECURSIVE LStrip(_)
LStrip(s) == IF s # <<>> /\ Head(s) \in Ws THEN LStrip(Tail(s)) ELSE s

RECURSIVE RStrip(_)
RStrip(s) ==
    IF s # <<>> /\ s[Len(s)] \in Ws THEN RStrip(SubSeq(s, 1, Len(s) - 1)) ELSE s

Strip(s) == RStrip(LStrip(s))

\* re.sub(r"^```(?:json)?\s*\n?", "", text, flags=re.IGNORECASE)
StripLeadingFence(s) ==
    IF s # <<>> /\ Head(s) = FENCE
    THEN LET a == Tail(s)
             b == IF a # <<>> /\ LowerAtom(Head(a)) = "json" THEN Tail(a) ELSE a
         IN  LStrip(b)
    ELSE s

\* re.sub(r"\n?```\s*$", "", text)
StripTrailingFence(s) ==
    LET r == RStrip(s)
    IN  IF r # <<>> /\ r[Len(r)] = FENCE
        THEN LET c == SubSeq(r, 1, Len(r) - 1)
             IN  IF c # <<>> /\ c[Len(c)] = NEWLINE
                 THEN SubSeq(c, 1, Len(c) - 1) ELSE c
        ELSE s

strip_json_markdown(text) ==
    Strip(StripTrailingFence(StripLeadingFence(Strip(text))))

(***************************************************************************)
(* JSON values, and json.loads                                             *)
(***************************************************************************)
JStr(s) == [t |-> "str", s |-> s, kv |-> <<>>, el |-> <<>>]
JNum(s) == [t |-> "num", s |-> s, kv |-> <<>>, el |-> <<>>]
JNull == [t |-> "null", s |-> <<>>, kv |-> <<>>, el |-> <<>>]
JArr(el) == [t |-> "arr", s |-> <<>>, kv |-> <<>>, el |-> el]
\* A dict: pairs <<key, value>> in insertion order, keys unique.
JObj(kv) == [t |-> "obj", s |-> <<>>, kv |-> kv, el |-> <<>>]

IsDict(v) == v.t = "obj"
IsList(v) == v.t = "arr"

HasKey(d, k) == \E i \in 1..Len(d.kv) : d.kv[i][1] = k
GetKey(d, k) == d.kv[CHOOSE i \in 1..Len(d.kv) : d.kv[i][1] = k][2]
DictGet(d, k, default) == IF HasKey(d, k) THEN GetKey(d, k) ELSE default
Keys(d) == {d.kv[i][1] : i \in 1..Len(d.kv)}

\* d[k] = v: a repeated key keeps its position and takes the new value.
DictPut(kv, k, v) ==
    IF \E i \in 1..Len(kv) : kv[i][1] = k
    THEN [i \in 1..Len(kv) |-> IF kv[i][1] = k THEN <<k, v>> ELSE kv[i]]
    ELSE Append(kv, <<k, v>>)

PFail(i) == [ok |-> FALSE, v |-> JNull, i |-> i]
POk(v, i) == [ok |-> TRUE, v |-> v, i |-> i]

RECURSIVE SkipWs(_, _)
SkipWs(s, i) == IF i <= Len(s) /\ s[i] \in Ws THEN SkipWs(s, i + 1) ELSE i

\* s[i] is the opening quote; j scans for the closing one.
RECURSIVE ScanString(_, _, _)
ScanString(s, i, j) ==
    IF j > Len(s) THEN PFail(j)
    ELSE IF s[j] = QUOTE THEN POk(JStr(SubSeq(s, i + 1, j - 1)), j + 1)
    ELSE IF s[j] = NEWLINE THEN PFail(j)
    ELSE ScanString(s, i, j + 1)

\* The end of a run of digits: the first index past it.
RECURSIVE ScanDigits(_, _)
ScanDigits(s, j) ==
    IF j <= Len(s) /\ s[j] \in DigitAtoms THEN ScanDigits(s, j + 1) ELSE j

RECURSIVE ParseValue(_, _)
RECURSIVE ParseValueAt(_, _)
RECURSIVE ParseObject(_, _)
RECURSIVE ParseArray(_, _)
RECURSIVE ParseMembers(_, _, _)
RECURSIVE MemberKey(_, _, _)
RECURSIVE MemberColon(_, _, _, _)
RECURSIVE MemberValue(_, _, _, _)
RECURSIVE MemberEnd(_, _, _)
RECURSIVE ParseElements(_, _, _)
RECURSIVE ElementValue(_, _, _)
RECURSIVE ElementEnd(_, _, _)

\* A number: "0", or a run of digits.
ParseNumber(s, i, j) == POk(JNum(SubSeq(s, i, j - 1)), j)

\* The value that starts at the first non-blank atom from i0 on.
ParseValue(s, i0) == ParseValueAt(s, SkipWs(s, i0))

ParseValueAt(s, i) ==
    IF i > Len(s) THEN PFail(i)
    ELSE IF s[i] = QUOTE THEN ScanString(s, i, i + 1)
    ELSE IF s[i] \in DigitAtoms
         THEN ParseNumber(s, i, IF s[i] = "0" THEN i + 1 ELSE ScanDigits(s, i + 1))
    ELSE IF s[i] = "null" THEN POk(JNull, i + 1)
    ELSE IF s[i] = LBRACE THEN ParseObject(s, SkipWs(s, i + 1))
    ELSE IF s[i] = LBRACKET THEN ParseArray(s, SkipWs(s, i + 1))
    ELSE PFail(i)

\* k is the first non-blank atom after "{"
ParseObject(s, k) ==
    IF k <= Len(s) /\ s[k] = RBRACE THEN POk(JObj(<<>>), k + 1)
    ELSE ParseMembers(s, k, <<>>)

\* k is the first non-blank atom after "["
ParseArray(s, k) ==
    IF k <= Len(s) /\ s[k] = RBRACKET THEN POk(JArr(<<>>), k + 1)
    ELSE ParseElements(s, k, <<>>)

\* i is at the first non-blank atom of a member: "key" : value (, | })
ParseMembers(s, i, acc) ==
    IF i > Len(s) \/ s[i] # QUOTE THEN PFail(i)
    ELSE MemberKey(s, ScanString(s, i, i + 1), acc)

MemberKey(s, key, acc) ==
    IF ~key.ok THEN key ELSE MemberColon(s, key.v.s, SkipWs(s, key.i), acc)

MemberColon(s, k, c, acc) ==
    IF c > Len(s) \/ s[c] # COLON THEN PFail(c)
    ELSE MemberValue(s, k, ParseValue(s, c + 1), acc)

MemberValue(s, k, val, acc) ==
    IF ~val.ok THEN val
    ELSE MemberEnd(s, SkipWs(s, val.i), DictPut(acc, k, val.v))

MemberEnd(s, e, acc) ==
    IF e > Len(s) THEN PFail(e)
    ELSE IF s[e] = RBRACE THEN POk(JObj(acc), e + 1)
    ELSE IF s[e] = COMMA THEN ParseMembers(s, SkipWs(s, e + 1), acc)
    ELSE PFail(e)

ParseElements(s, i, acc) == ElementValue(s, ParseValue(s, i), acc)

ElementValue(s, val, acc) ==
    IF ~val.ok THEN val
    ELSE ElementEnd(s, SkipWs(s, val.i), Append(acc, val.v))

ElementEnd(s, e, acc) ==
    IF e > Len(s) THEN PFail(e)
    ELSE IF s[e] = RBRACKET THEN POk(JArr(acc), e + 1)
    ELSE IF s[e] = COMMA THEN ParseElements(s, e + 1, acc)
    ELSE PFail(e)

\* The whole of s must be one value.
Loaded(s, r) == IF r.ok /\ SkipWs(s, r.i) > Len(s) THEN r ELSE PFail(r.i)

\* json.loads: ok = FALSE stands for json.JSONDecodeError.
json_loads(s) == Loaded(s, ParseValue(s, 1))

(***************************************************************************)
(* str() and repr() of a parsed value                                      *)
(***************************************************************************)
RECURSIVE PyRepr(_)
RECURSIVE ReprItems(_, _)
RECURSIVE ReprPairs(_, _)

PyRepr(v) ==
    CASE v.t = "str" -> <<"'">> \o v.s \o <<"'">>
      [] v.t = "num" -> v.s
      [] v.t = "null" -> <<"None">>
      [] v.t = "arr" -> <<LBRACKET>> \o ReprItems(v.el, 1) \o <<RBRACKET>>
      [] v.t = "obj" -> <<LBRACE>> \o ReprPairs(v.kv, 1) \o <<RBRACE>>

ReprItems(el, i) ==
    IF i > Len(el) THEN <<>>
    ELSE (IF i > 1 THEN <<COMMA, SPACE>> ELSE <<>>)
         \o PyRepr(el[i]) \o ReprItems(el, i + 1)

ReprPairs(kv, i) ==
    IF i > Len(kv) THEN <<>>
    ELSE (IF i > 1 THEN <<COMMA, SPACE>> ELSE <<>>)
         \o <<"'">> \o kv[i][1] \o <<"'", COLON, SPACE>>
         \o PyRepr(kv[i][2]) \o ReprPairs(kv, i + 1)

PyStr(v) == IF v.t = "str" THEN v.s ELSE PyRepr(v)

(***************************************************************************)
(* _parse_json_objects                                                     *)
(***************************************************************************)
K_id == <<"id">>
K_label == <<"label">>
K_type == <<"type">>
K_bbox == <<"bbox">>
K_from == <<"from">>
K_to == <<"to">>
K_nodes == <<"nodes">>
K_edges == <<"edges">>

NodeKeys == {K_id, K_label, K_type}
EdgeKeys == {K_from, K_to}

\* tuple(sorted((k, str(v)) for k, v in item.items() if k in required_keys)):
\* keys of a dict are unique, so the sorted tuple is the set of its pairs.
Signature(item, required_keys) ==
    {<<k, PyStr(GetKey(item, k))>> : k \in required_keys}

\* _accept, without the update of seen.
Accept_NoDedup(item, required_keys, seen) ==
    required_keys \subseteq Keys(item)

Accept(item, required_keys, seen) ==
    /\ required_keys \subseteq Keys(item)
    /\ Signature(item, required_keys) \notin seen

\* for item in data: if isinstance(item, dict) and _accept(item): append
RECURSIVE AcceptList(_, _, _, _, _)
AcceptList(el, i, results, seen, required_keys) ==
    IF i > Len(el) THEN results
    ELSE IF IsDict(el[i]) /\ Accept(el[i], required_keys, seen)
         THEN AcceptList(el, i + 1, Append(results, el[i]),
                         seen \cup {Signature(el[i], required_keys)},
                         required_keys)
         ELSE AcceptList(el, i + 1, results, seen, required_keys)

\* The least element of a set of positions, or default when there is none.
MinOr(S, default) ==
    IF S = {} THEN default ELSE CHOOSE k \in S : \A m \in S : k <= m

Min(a, b) == IF a < b THEN a ELSE b

\* The inner while loop: depth counts "{" minus "}" from i on; j stops on
\* the first atom that brings it back to 0, or one past the end when the
\* braces never balance.
DepthAt(cleaned, i, k) ==
    Cardinality({m \in i..k : cleaned[m] = LBRACE})
    - Cardinality({m \in i..k : cleaned[m] = RBRACE})

FindClose(cleaned, i) ==
    MinOr({k \in i..Len(cleaned) : DepthAt(cleaned, i, k) = 0}, Len(cleaned) + 1)

\* isinstance(item, dict) and _accept(item), for the outcome of json.loads
Accepted(item, required_keys, seen) ==
    item.ok /\ IsDict(item.v) /\ Accept(item.v, required_keys, seen)

\* Attempt 2, the outer while loop, from position i0: skip to the next "{",
\* take the block it opens, go on after the block.
RECURSIVE ScanBlocks(_, _, _, _, _)
RECURSIVE ScanBlock(_, _, _, _, _, _)
RECURSIVE ScanCandidate(_, _, _, _, _, _)

ScanBlocks(cleaned, i0, results, seen, required_keys) ==
    IF \A k \in i0..Len(cleaned) : cleaned[k] # LBRACE THEN results
    ELSE ScanBlock(cleaned,
                   MinOr({k \in i0..Len(cleaned) : cleaned[k] = LBRACE}, 0),
                   FindClose(cleaned,
                       MinOr({k \in i0..Len(cleaned) : cleaned[k] = LBRACE}, 0)),
                   results, seen, required_keys)

\* The block runs from i to j: candidate = cleaned[i:j + 1]
ScanBlock(cleaned, i, j, results, seen, required_keys) ==
    ScanCandidate(cleaned, j,
                  json_loads(SubSeq(cleaned, i, Min(j, Len(cleaned)))),
                  results, seen, required_keys)

ScanCandidate(cleaned, j, item, results, seen, required_keys) ==
    ScanBlocks(cleaned, j + 1,
               IF Accepted(item, required_keys, seen)
               THEN Append(results, item.v) ELSE results,
               IF Accepted(item, required_keys, seen)
               THEN seen \cup {Signature(item.v, required_keys)} ELSE seen,
               required_keys)

\* Attempt 1 on a list: return what it accepted, if anything.
ListAttempt(cleaned, results, required_keys) ==
    IF results # <<>> THEN results
    ELSE ScanBlocks(cleaned, 1, <<>>, {}, required_keys)

\* Lines 74-111, data being the outcome of json.loads(cleaned).
Attempts(cleaned, data, required_keys) ==
    IF data.ok /\ IsList(data.v)
    THEN ListAttempt(cleaned,
                     AcceptList(data.v.el, 1, <<>>, {}, required_keys),
                     required_keys)
    ELSE IF Accepted(data, required_keys, {}) THEN <<data.v>>
    ELSE ScanBlocks(cleaned, 1, <<>>, {}, required_keys)

ParseCleaned(cleaned, required_keys) ==
    Attempts(cleaned, json_loads(cleaned), required_keys)

_parse_json_objects(raw, required_keys) ==
    ParseCleaned(strip_json_markdown(raw), required_keys)

(***************************************************************************)
(* The typed mappers                                                       *)
(***************************************************************************)
S_Process == <<"Process">>
S_Decision == <<"Decision">>
S_Actor == <<"Actor">>
S_Database == <<"Database">>
S_connects == <<"connects">>

MkNode(id, label, type, bbox) ==
    [id |-> id, label |-> label, type |-> type, bbox |-> bbox]
MkEdge(from, to, label) == [from |-> from, to |-> to, label |-> label]

\* Lines 117-125.
EntitiesOf(raw_items) ==
    [i \in 1..Len(raw_items) |->
        MkNode(PyStr(GetKey(raw_items[i], K_id)),
               PyStr(GetKey(raw_items[i], K_label)),
               PyStr(GetKey(raw_items[i], K_type)),
               DictGet(raw_items[i], K_bbox, JArr(<<>>)))]

parse_entities_from_json(raw) == EntitiesOf(_parse_json_objects(raw, NodeKeys))

\* Lines 131-138.
EdgesOf(raw_items) ==
    [i \in 1..Len(raw_items) |->
        MkEdge(PyStr(GetKey(raw_items[i], K_from)),
               PyStr(GetKey(raw_items[i], K_to)),
               PyStr(DictGet(raw_items[i], K_label, JStr(S_connects))))]

parse_edges_from_json(raw) == EdgesOf(_parse_json_objects(raw, EdgeKeys))

\* The first edge that leaves node_id, as <<to, label>>; <<>> for (None, None).
StepOf(edgeList, i) == IF i = 0 THEN <<>> ELSE <<edgeList[i].to, edgeList[i].label>>

get_next_step(node_id, edgeList) ==
    StepOf(edgeList,
           MinOr({i \in 1..Len(edgeList) : edgeList[i].from = node_id}, 0))

(***************************************************************************)
(* vision_parser_node                                                      *)
(***************************************************************************)
fallback_node ==
    <<MkNode(<<"n1">>, <<"Unknown", SPACE, "Component">>, S_Process, JArr(<<>>))>>
fallback_edges == <<>>

\* err_str[:200]
ErrPrefixLen == 200

RECURSIVE Digits(_)
Digits(n) ==
    LET d == <<"0", "1", "2", "3", "4", "5", "6", "7", "8", "9">>[(n % 10) + 1]
    IN  IF n < 10 THEN <<d>> ELSE Digits(n \div 10) \o <<d>>

\* str(e) of the json.JSONDecodeError raised at character offset pos.
JSONDecodeErrorStr(pos) ==
    <<"Expecting", SPACE, "value", COLON, SPACE, "line", SPACE, "1", SPACE,
      "column", SPACE>> \o Digits(pos + 1)
      \o <<SPACE, "(", "char", SPACE>> \o Digits(pos) \o <<")">>

TypeName(v) == IF v.t = "num" THEN "int" ELSE "NoneType"

\* TypeError of "for n in <int or None>"
NotIterableStr(v) ==
    <<"'", TypeName(v), "'", SPACE, "object", SPACE, "is", SPACE, "not",
      SPACE, "iterable">>

\* TypeError of "'label' in <int or None>"
ArgNotIterableStr(v) ==
    <<"argument", SPACE, "of", SPACE, "type", SPACE, "'", TypeName(v), "'",
      SPACE, "is", SPACE, "not", SPACE, "iterable">>

\* TypeError of len(None), when resp.text is None
NoLenStr ==
    <<"object", SPACE, "of", SPACE, "type", SPACE, "'", "NoneType", "'",
      SPACE, "has", SPACE, "no", SPACE, "len", "(", ")">>

\* The substrings that make the except clause re-raise.
ReraiseMarks ==
    {<<"RESOURCE_EXHAUSTED">>, <<"4", "2", "9">>, <<"4", "0", "4">>, <<"NOT_FOUND">>}

IsReraised(err_str) == \E x \in ReraiseMarks : Contains(err_str, x)

Take(s, n) == SubSeq(s, 1, Min(n, Len(s)))

VRaise(err_str) ==
    [raised |-> TRUE, err |-> err_str, rectangles |-> <<>>, edges |-> <<>>,
     gemini_raw |-> <<>>]
VReturn(ents, eds, raw) ==
    [raised |-> FALSE, err |-> <<>>, rectangles |-> ents, edges |-> eds,
     gemini_raw |-> raw]

\* except Exception as e: ...
VisionExcept(err_str) ==
    IF IsReraised(err_str) THEN VRaise(err_str)
    ELSE VReturn(fallback_node, fallback_edges,
                 <<"[API unavailable: ">> \o Take(err_str, ErrPrefixLen) \o <<"]">>)

\* not v
Falsy(v) ==
    CASE v.t = "str" -> v.s = <<>>
      [] v.t = "num" -> v.s = <<"0">>
      [] v.t = "null" -> TRUE
      [] v.t = "arr" -> v.el = <<>>
      [] v.t = "obj" -> v.kv = <<>>

\* key in item, for an item that supports it (dict, str, list)
PyIn(key, item) ==
    CASE item.t = "obj" -> HasKey(item, key)
      [] item.t = "str" -> Contains(item.s, key)
      [] item.t = "arr" -> \E i \in 1..Len(item.el) : item.el[i] = JStr(key)
      [] OTHER -> FALSE

NoIn(item) == item.t \in {"num", "null"}

\* The items "for n in v" yields, for an iterable v.
IterItems(v) ==
    CASE v.t = "arr" -> v.el
      [] v.t = "obj" -> [i \in 1..Len(v.kv) |-> JStr(v.kv[i][1])]
      [] v.t = "str" -> [i \in 1..Len(v.s) |-> JStr(<<v.s[i]>>)]
      [] OTHER -> <<>>

IsNodeRecord(n) == IsDict(n) /\ HasKey(n, K_id) /\ HasKey(n, K_label)
IsEdgeRecord(e) == IsDict(e) /\ HasKey(e, K_from) /\ HasKey(e, K_to)
ListNodeItem(item) == PyIn(K_label, item) /\ PyIn(K_id, item)
ListEdgeItem(item) == PyIn(K_from, item) /\ PyIn(K_to, item)

NodesOf(sel) ==
    [i \in 1..Len(sel) |->
        MkNode(PyStr(GetKey(sel[i], K_id)),
               PyStr(GetKey(sel[i], K_label)),
               PyStr(DictGet(sel[i], K_type, JStr(S_Process))),
               DictGet(sel[i], K_bbox, JArr(<<>>)))]

\* Lines 210-213.
MapNodes(raw_nodes) == NodesOf(SelectSeq(IterItems(raw_nodes), IsNodeRecord))

\* Lines 214-217.
MapEdges(raw_edges) == EdgesOf(SelectSeq(IterItems(raw_edges), IsEdgeRecord))

\* re.search(r"\{.*\}", cleaned, re.DOTALL): first "{" to last "}".
HasBraceSpan(cleaned) ==
    \E a, b \in 1..Len(cleaned) :
        a < b /\ cleaned[a] = LBRACE /\ cleaned[b] = RBRACE
BraceSpan(cleaned) ==
    SubSeq(cleaned,
           MinOr({i \in 1..Len(cleaned) : cleaned[i] = LBRACE}, 1),
           0 - MinOr({0 - i : i \in {k \in 1..Len(cleaned) : cleaned[k] = RBRACE}}, 0))

\* Lines 225-233: the placeholder substitution and the return.
VisionReturn(entities, edgeList, raw_text) ==
    VReturn(IF entities = <<>> THEN fallback_node ELSE entities, edgeList, raw_text)

\* Lines 219-224: the scanner fallbacks.
VisionFinish(entities, edgeList, raw_text) ==
    VisionReturn(IF entities = <<>> THEN parse_entities_from_json(raw_text)
                 ELSE entities,
                 IF edgeList = <<>> THEN parse_edges_from_json(raw_text)
                 ELSE edgeList,
                 raw_text)

\* Lines 210-217: iterating raw_nodes, then raw_edges.
VisionIter(raw_nodes, raw_edges, raw_text) ==
    IF NoIn(raw_nodes) THEN VisionExcept(NotIterableStr(raw_nodes))
    ELSE IF NoIn(raw_edges) THEN VisionExcept(NotIterableStr(raw_edges))
    ELSE VisionFinish(MapNodes(raw_nodes), MapEdges(raw_edges), raw_text)

\* Line 202.
NodesField(data) ==
    IF IsDict(data) THEN DictGet(data, K_nodes, JArr(<<>>)) ELSE JArr(<<>>)
\* Line 208.
EdgesField(data) ==
    IF IsDict(data) THEN DictGet(data, K_edges, JArr(<<>>)) ELSE JArr(<<>>)
\* Line 203.
ListPath(data) == Falsy(NodesField(data)) /\ IsList(data)

\* The first item of the list on which "in" raises.
FirstNoIn(el) == el[MinOr({i \in 1..Len(el) : NoIn(el[i])}, 1)]

\* Lines 202-217, for the parsed (or salvaged) payload data.
VisionMap(data, raw_text) ==
    IF ListPath(data) /\ \E i \in 1..Len(data.el) : NoIn(data.el[i])
    THEN VisionExcept(ArgNotIterableStr(FirstNoIn(data.el)))
    ELSE VisionIter(IF ListPath(data) THEN JArr(SelectSeq(data.el, ListNodeItem))
                    ELSE NodesField(data),
                    IF ListPath(data) THEN JArr(SelectSeq(data.el, ListEdgeItem))
                    ELSE EdgesField(data),
                    raw_text)

\* Lines 195-200: data, or the JSONDecodeError of the salvage parse.
LoadData(cleaned, whole) ==
    IF whole.ok THEN whole
    ELSE IF HasBraceSpan(cleaned) THEN json_loads(BraceSpan(cleaned))
    ELSE POk(JObj(<<>>), 0)

\* pos: the character offset at which a failing salvage parse stops.  Atoms
\* stand for runs of characters of any length and blanks may be of any
\* width, so the offset of a parse failure is not fixed by the atoms and is
\* an input.
VisionLoaded(data, raw_text, pos) ==
    IF data.ok THEN VisionMap(data.v, raw_text)
    ELSE VisionExcept(JSONDecodeErrorStr(pos))

VisionCleaned(cleaned, raw_text, pos) ==
    VisionLoaded(LoadData(cleaned, json_loads(cleaned)), raw_text, pos)

\* outcome: what client.models.generate_content did.
vision_parser_node(outcome, pos) ==
    IF outcome.kind = "error" THEN VisionExcept(outcome.msg)
    ELSE IF outcome.kind = "none" THEN VisionExcept(NoLenStr)
    ELSE VisionCleaned(strip_json_markdown(outcome.text), outcome.text, pos)

(***************************************************************************)
(* The identity index shared by rag_node and code_gen_node                 *)
(***************************************************************************)
\* {e["id"]: e for e in entities}: a later node with the same id replaces
\* the earlier one.
HasId(entities, id) == \E i \in 1..Len(entities) : entities[i].id = id
id_to_node(entities, id) ==
    entities[CHOOSE i \in 1..Len(entities) :
                 /\ entities[i].id = id
                 /\ \A k \in (i + 1)..Len(entities) : entities[k].id # id]

\* id_to_label.get(x, default)
LabelOr(entities, id, default) ==
    IF HasId(entities, id) THEN id_to_node(entities, id).label ELSE default

(***************************************************************************)
(* rag_node                                                                *)
(***************************************************************************)
R_none == [kind |-> "none", labels |-> <<>>, edge_summary |-> <<>>]
R_gemini == [kind |-> "gemini", labels |-> <<>>, edge_summary |-> <<>>]

\* text_ok: whether the text-only inference call returned.
rag_node(entities, edgeList, text_ok) ==
    IF entities = <<>> THEN R_none
    ELSE IF text_ok THEN R_gemini
    ELSE [kind |-> "local",
          labels |-> [i \in 1..Len(entities) |-> entities[i].label],
          edge_summary |->
              [i \in 1..Len(edgeList) |->
                  <<LabelOr(entities, edgeList[i].from, edgeList[i].from),
                    edgeList[i].label,
                    LabelOr(entities, edgeList[i].to, edgeList[i].to)>>]]

(***************************************************************************)
(* code_gen_node                                                           *)
(***************************************************************************)
\* re.sub(r"[^A-Za-z0-9_]", "_", name)
safe_id(name) ==
    [i \in 1..Len(name) |-> IF IsWordAtom(name[i]) THEN name[i] ELSE "_"]

\* re.sub(r"[^A-Za-z0-9]", "", name)
safe_class(name) == SelectSeq(name, IsWordAtom)

IsDatabase(e) == e.type = S_Database
IsProcess(e) == e.type = S_Process

\* One line of logic_body.
Line(op, branch, label, arg) ==
    [op |-> op, branch |-> branch, label |-> label, arg |-> arg]

\* Lines 319-349.
SchemaSection(entities, edgeList) ==
    LET db_nodes == SelectSeq(entities, IsDatabase)
        IsDbDb(ed) ==
            /\ HasId(entities, ed.from) /\ HasId(entities, ed.to)
            /\ id_to_node(entities, ed.from).type = S_Database
            /\ id_to_node(entities, ed.to).type = S_Database
        links == SelectSeq(edgeList, IsDbDb)
    IN  [kind |-> "Schema",
         tables |-> [i \in 1..Len(db_nodes) |->
                        [tbl |-> safe_id(db_nodes[i].label),
                         todo |-> db_nodes[i].label]],
         links |-> [i \in 1..Len(links) |->
                       [src |-> safe_id(id_to_node(entities, links[i].from).label),
                        tgt |-> safe_id(id_to_node(entities, links[i].to).label),
                        label |-> links[i].label]],
         endpoints |-> <<>>, labels |-> <<>>, triples |-> <<>>]

\* The loop with its break one level up: it stops at the first incoming
\* edge, whatever its source.
RECURSIVE FindActor_FirstIncoming(_, _, _, _)
FindActor_FirstIncoming(entities, edgeList, proc, i) ==
    IF i > Len(edgeList) THEN <<>>
    ELSE IF edgeList[i].to = proc.id
         THEN IF /\ HasId(entities, edgeList[i].from)
                 /\ id_to_node(entities, edgeList[i].from).type = S_Actor
              THEN <<id_to_node(entities, edgeList[i].from).label,
                     edgeList[i].label>>
              ELSE <<>>
         ELSE FindActor_FirstIncoming(entities, edgeList, proc, i + 1)

\* Lines 371-377, from edge i on: actor_info, <<>> for None.
RECURSIVE FindActor(_, _, _, _)
FindActor(entities, edgeList, proc, i) ==
    IF i > Len(edgeList) THEN <<>>
    ELSE IF /\ edgeList[i].to = proc.id
            /\ HasId(entities, edgeList[i].from)
            /\ id_to_node(entities, edgeList[i].from).type = S_Actor
         THEN <<id_to_node(entities, edgeList[i].from).label, edgeList[i].label>>
         ELSE FindActor(entities, edgeList, proc, i + 1)

\* next((ed["to"] ...) for ed in edges if ed["from"] == next_id and
\*      ed["label"].lower() == word), (None, None)); <<>> when the id found
\* is falsy or there is none.
BranchTarget(edgeList, next_id, word) ==
    LET hits == {i \in 1..Len(edgeList) :
                    /\ edgeList[i].from = next_id
                    /\ Lower(edgeList[i].label) = <<word>>}
    IN  IF hits = {} THEN <<>>
        ELSE edgeList[CHOOSE k \in hits : \A m \in hits : k <= m].to

\* Lines 404-410 and 413-419: the lines of one branch.
BranchLines(entities, target, branch) ==
    IF target # <<>> /\ HasId(entities, target)
    THEN LET node == id_to_node(entities, target)
         IN  IF node.type = S_Database
             THEN <<Line("persist", branch, node.label, safe_id(node.label))>>
             ELSE <<Line("proceed", branch, node.label, <<>>)>>
    ELSE <<Line("pass", branch, <<>>, <<>>)>>

\* Lines 388-426.
LogicBody(entities, edgeList, proc) ==
    LET step == get_next_step(proc.id, edgeList)
        next_id == IF step = <<>> THEN <<>> ELSE step[1]
        body ==
            IF next_id # <<>> /\ HasId(entities, next_id)
            THEN LET next_node == id_to_node(entities, next_id)
                 IN  IF next_node.type = S_Decision
                     THEN <<Line("if", "", next_node.label, <<>>)>>
                          \o BranchLines(entities,
                                 BranchTarget(edgeList, next_id, "yes"), "Yes")
                          \o <<Line("else", "", <<>>, <<>>)>>
                          \o BranchLines(entities,
                                 BranchTarget(edgeList, next_id, "no"), "No")
                     ELSE IF next_node.type = S_Database
                     THEN <<Line("save", "", next_node.label,
                                 safe_id(next_node.label))>>
                     ELSE <<>>
            ELSE <<>>
    IN  IF body = <<>> THEN <<Line("todo", "", <<>>, <<>>)>> ELSE body

\* Lines 366-442: the endpoint of one Process node.
Endpoint(entities, edgeList, proc) ==
    LET actor_info == FindActor(entities, edgeList, proc, 1)
    IN  [cls |-> safe_class(proc.label),
         route |-> <<"/">> \o Lower(safe_id(proc.label)),
         name |-> Lower(safe_id(proc.label)),
         process |-> proc.label,
         actor_id_param |->
             IF actor_info # <<>>
             THEN <<NEWLINE>> \o Lower(safe_id(actor_info[1]))
                  \o <<"_id", COLON, SPACE, "int", COMMA, SPACE, "# from edge: ">>
                  \o actor_info[2]
             ELSE <<>>,
         actor_comment |->
             IF actor_info # <<>>
             THEN <<"Triggered by '">> \o actor_info[1] \o <<"' via '">>
                  \o actor_info[2] \o <<"'">>
             ELSE <<"No direct actor edge detected">>,
         logic_body |-> LogicBody(entities, edgeList, proc)]

\* Lines 352-444.
ServiceSection(entities, edgeList) ==
    LET process_nodes == SelectSeq(entities, IsProcess)
    IN  [kind |-> "Service", tables |-> <<>>, links |-> <<>>,
         endpoints |-> [i \in 1..Len(process_nodes) |->
                           Endpoint(entities, edgeList, process_nodes[i])],
         labels |-> <<>>, triples |-> <<>>]

\* Lines 447-452.
FallbackSection(entities, edgeList) ==
    [kind |-> "Fallback", tables |-> <<>>, links |-> <<>>, endpoints |-> <<>>,
     labels |-> [i \in 1..Len(entities) |-> entities[i].label],
     triples |-> [i \in 1..Len(edgeList) |->
                     <<LabelOr(entities, edgeList[i].from, edgeList[i].from),
                       edgeList[i].label,
                       LabelOr(entities, edgeList[i].to, edgeList[i].to)>>]]

code_gen_node(entities, edgeList) ==
    LET types == {entities[i].type : i \in 1..Len(entities)}
        sql == IF \E i \in 1..Len(entities) : IsDatabase(entities[i])
               THEN <<SchemaSection(entities, edgeList)>> ELSE <<>>
        py == IF types \cap {S_Actor, S_Process, S_Decision} # {}
              THEN <<ServiceSection(entities, edgeList)>> ELSE <<>>
        code_sections == sql \o py
    IN  IF code_sections = <<>> THEN <<FallbackSection(entities, edgeList)>>
        ELSE code_sections

(***************************************************************************)
(* Inputs: what the upstream model may answer                              *)
(***************************************************************************)
MaxEdges == 3
MaxArr == 3
ManyNodes == 11

\* The JSON text of a value; sp is the blank written after "," and ":".
RECURSIVE Render(_, _)
RECURSIVE RenderItems(_, _, _)
RECURSIVE RenderPairs(_, _, _)

Render(v, sp) ==
    CASE v.t = "str" -> <<QUOTE>> \o v.s \o <<QUOTE>>
      [] v.t = "num" -> v.s
      [] v.t = "null" -> <<"null">>
      [] v.t = "arr" -> <<LBRACKET>> \o RenderItems(v.el, 1, sp) \o <<RBRACKET>>
      [] v.t = "obj" -> <<LBRACE>> \o RenderPairs(v.kv, 1, sp) \o <<RBRACE>>

RenderItems(el, i, sp) ==
    IF i > Len(el) THEN <<>>
    ELSE (IF i > 1 THEN <<COMMA>> \o sp ELSE <<>>)
         \o Render(el[i], sp) \o RenderItems(el, i + 1, sp)

RenderPairs(kv, i, sp) ==
    IF i > Len(kv) THEN <<>>
    ELSE (IF i > 1 THEN <<COMMA>> \o sp ELSE <<>>)
         \o <<QUOTE>> \o kv[i][1] \o <<QUOTE, COLON>> \o sp
         \o Render(kv[i][2], sp) \o RenderPairs(kv, i + 1, sp)

NodeRec(id, label, type) ==
    JObj(<<<<K_id, JStr(id)>>, <<K_label, JStr(label)>>, <<K_type, JStr(type)>>>>)
EdgeRec(from, to, label) ==
    JObj(<<<<K_from, JStr(from)>>, <<K_to, JStr(to)>>, <<K_label, JStr(label)>>>>)

R_user == NodeRec(<<"n1">>, <<"User">>, S_Actor)
R_create == NodeRec(<<"n2">>, <<"CreateOrder">>, S_Process)
R_orders == NodeRec(<<"n3">>, <<"Orders">>, S_Database)
R_valid == NodeRec(<<"n4">>, <<"Valid", "?">>, S_Decision)
R_notify == NodeRec(<<"n5">>, <<"Notify">>, S_Process)
R_audit == NodeRec(<<"n1">>, <<"Audit">>, S_Database)

E_submits == EdgeRec(<<"n1">>, <<"n2">>, <<"submits">>)
E_feeds == EdgeRec(<<"n3">>, <<"n2">>, <<"feeds">>)
E_calls == EdgeRec(<<"x9">>, <<"n2">>, <<"calls">>)
E_saves == EdgeRec(<<"n2">>, <<"n3">>, <<"saves">>)
E_checks == EdgeRec(<<"n2">>, <<"n4">>, <<"checks">>)
E_then == EdgeRec(<<"n2">>, <<"n5">>, <<"then">>)
E_yes == EdgeRec(<<"n4">>, <<"n3">>, <<"Yes">>)
E_no == EdgeRec(<<"n4">>, <<"n5">>, <<"no">>)
E_yes2 == EdgeRec(<<"n4">>, <<"n5">>, <<"YES">>)

IdWords ==
    <<"n1", "n2", "n3", "n4", "n5", "n6", "n7", "n8", "n9", "n10", "n11",
      "n12", "n13">>
LabelWords ==
    <<"A", "B", "C", "D", "E", "F", "G", "H", "I", "J", "K", "L", "M">>

\* k distinct Interface nodes.
ManyRecs(k) ==
    [i \in 1..k |-> NodeRec(<<IdWords[i]>>, <<LabelWords[i]>>, <<"Interface">>)]

Graph(nodes, eds) == [nodes |-> nodes, edges |-> eds]

PipelineGraphs ==
    { Graph(<<R_user, R_create, R_orders>>, <<E_submits, E_saves>>),
      Graph(<<R_create, R_orders>>, <<E_calls, E_saves>>),
      Graph(<<>>, <<E_submits>>),
      Graph(<<>>, <<>>),
      Graph(<<R_create, R_valid, R_orders, R_notify>>, <<E_checks, E_yes, E_no>>),
      Graph(<<R_user, R_audit, R_create>>, <<E_submits>>),
      Graph(<<R_valid, R_user>>, <<>>),
      Graph(ManyRecs(ManyNodes), <<>>) }

\* {"nodes": [...], "edges": [...]}, the answer the prompt asks for.
Unified(g) ==
    Render(JObj(<<<<K_nodes, JArr(g.nodes)>>, <<K_edges, JArr(g.edges)>>>>), <<SPACE>>)
Fenced(text) == <<FENCE, "json", NEWLINE>> \o text \o <<NEWLINE, FENCE>>
\* One array holding the node and the edge records.
BareArray(g) == Render(JArr(g.nodes \o g.edges), <<>>)
\* The answer inside a sentence.
InProse(text) ==
    <<"Here", SPACE, "is", SPACE, "the", SPACE, "graph", COLON, SPACE>>
    \o text \o <<SPACE, "done">>

Num(d) == JNum(<<d>>)

OddTexts ==
    { <<>>,
      <<"lorem", SPACE, "ipsum">>,
      <<LBRACE, "oops", RBRACE>>,
      <<"see", SPACE, LBRACE, "a", RBRACE, SPACE, "and", SPACE, LBRACE, "b", RBRACE>>,
      <<"5">>,
      <<"null">>,
      Render(JObj(<<<<K_nodes, Num("5")>>>>), <<>>),
      Render(JObj(<<<<K_nodes, JNull>>>>), <<>>),
      Render(JObj(<<<<K_nodes, JArr(<<R_create>>)>>, <<K_edges, Num("7")>>>>), <<>>),
      Render(JArr(<<Num("1"), R_create>>), <<>>),
      Render(JArr(<<JStr(<<"label", SPACE, "id">>), R_create>>), <<>>),
      Render(JObj(<<<<<<"graph">>, JObj(<<<<K_nodes, JArr(<<R_create>>)>>>>)>>>>), <<>>),
      Render(R_create, <<>>) \o <<SPACE>> \o Render(E_saves, <<>>),
      Render(JArr(<<JArr(<<R_user, R_audit>>)>>), <<>>) }

Texts ==
    {Unified(g) : g \in PipelineGraphs}
    \cup {Fenced(Unified(g)) : g \in PipelineGraphs}
    \cup {BareArray(g) : g \in PipelineGraphs}
    \cup {InProse(Unified(g)) : g \in PipelineGraphs}
    \cup OddTexts

Outcome(kind, category, text, msg) ==
    [kind |-> kind, category |-> category, text |-> text, msg |-> msg]

Pending == Outcome("pending", "", <<>>, <<>>)

\* The categories of the guard layer that must reach the caller.
TransientCategories == {"rate_limit", "unavailable", "not_found"}

\* str(e) of the errors of the inference call: "<code> <STATUS>".
InferErrors ==
    { Outcome("error", "rate_limit", <<>>, <<"4", "2", "9", SPACE, "RESOURCE_EXHAUSTED">>),
      Outcome("error", "unavailable", <<>>, <<"5", "0", "3", SPACE, "UNAVAILABLE">>),
      Outcome("error", "not_found", <<>>, <<"4", "0", "4", SPACE, "NOT_FOUND">>),
      Outcome("error", "internal", <<>>, <<"5", "0", "0", SPACE, "INTERNAL">>),
      Outcome("error", "network", <<>>, <<"Connection", SPACE, "refused">>),
      Outcome("error", "timeout", <<>>, <<"Read", SPACE, "timed", SPACE, "out">>) }

InferOutcomes ==
    {Outcome("text", "", t, <<>>) : t \in Texts}
    \cup {Outcome("none", "", <<>>, <<>>)}
    \cup InferErrors

\* Character offsets at which a failing salvage parse may stop.
DecodePositions == {7, 404, 429}

(***************************************************************************)
(* The request: chat_with_trace and the compiled workflow                  *)
(***************************************************************************)
DetailLen == 300

NoRaise == [is |-> FALSE, err |-> <<>>]
NoHttp ==
    [status |-> 0, reply |-> R_none, entities |-> <<>>, edges |-> <<>>,
     generated_code |-> <<>>, detail |-> <<>>]

QuotaDetail == <<"Gemini API quota exhausted (free tier limit reached).">>

NoExtract ==
    /\ x_src = [shape |-> "none", items |-> <<>>]
    /\ x_raw = <<>>
    /\ x_keys = {}
    /\ x_out = <<>>
    /\ x_done = FALSE

\* initial_state, before trace_brain.invoke
Init ==
    /\ pc = "vision_parser"
    /\ infer = Pending
    /\ rectangles = <<>>
    /\ edges = <<>>
    /\ gemini_raw = <<>>
    /\ response = R_none
    /\ generated_code = <<>>
    /\ raised = NoRaise
    /\ http = NoHttp
    /\ NoExtract

\* What the graph runner does with the outcome r of vision_parser_node: the
\* returned fields update the state, an exception leaves for the handler.
VisionResult(r) ==
    IF r.raised
    THEN /\ raised' = [is |-> TRUE, err |-> r.err]
         /\ pc' = "except"
         /\ UNCHANGED <<rectangles, edges, gemini_raw>>
    ELSE /\ rectangles' = r.rectangles
         /\ edges' = r.edges
         /\ gemini_raw' = r.gemini_raw
         /\ pc' = "rag_engine"
         /\ UNCHANGED raised

VisionParserNode ==
    /\ pc = "vision_parser"
    /\ \E outcome \in InferOutcomes, pos \in DecodePositions :
          /\ infer' = outcome
          /\ VisionResult(vision_parser_node(outcome, pos))
    /\ UNCHANGED <<response, generated_code, http,
                   x_src, x_raw, x_keys, x_out, x_done>>

RagNode ==
    /\ pc = "rag_engine"
    /\ \E text_ok \in BOOLEAN :
          response' = rag_node(rectangles, edges, text_ok)
    /\ pc' = "code_generator"
    /\ UNCHANGED <<infer, rectangles, edges, gemini_raw, generated_code,
                   raised, http, x_src, x_raw, x_keys, x_out, x_done>>

CodeGenNode ==
    /\ pc = "code_generator"
    /\ generated_code' = code_gen_node(rectangles, edges)
    /\ pc' = "return"
    /\ UNCHANGED <<infer, rectangles, edges, gemini_raw, response,
                   raised, http, x_src, x_raw, x_keys, x_out, x_done>>

\* Lines 510-515.
ChatReturn ==
    /\ pc = "return"
    /\ http' = [status |-> 200, reply |-> response, entities |-> rectangles,
                edges |-> edges, generated_code |-> generated_code,
                detail |-> <<>>]
    /\ pc' = "done"
    /\ UNCHANGED <<infer, rectangles, edges, gemini_raw, response,
                   generated_code, raised, x_src, x_raw, x_keys, x_out, x_done>>

\* Lines 516-527.
ChatExcept ==
    /\ pc = "except"
    /\ http' = IF \/ Contains(raised.err, <<"RESOURCE_EXHAUSTED">>)
                  \/ Contains(raised.err, <<"4", "2", "9">>)
               THEN [NoHttp EXCEPT !.status = 503, !.detail = QuotaDetail]
               ELSE [NoHttp EXCEPT !.status = 500,
                                   !.detail = Take(raised.err, DetailLen)]
    /\ pc' = "done"
    /\ UNCHANGED <<infer, rectangles, edges, gemini_raw, response,
                   generated_code, raised, x_src, x_raw, x_keys, x_out, x_done>>

Next ==
    \/ VisionParserNode
    \/ RagNode
    \/ CodeGenNode
    \/ ChatReturn
    \/ ChatExcept

Spec == Init /\ [][Next]_vars

(***************************************************************************)
(* The code generator on its own: any graph the mappers can emit           *)
(***************************************************************************)
SeqsUpTo(S, k) == UNION {[1..n -> S] : n \in 0..k}

R_admin == NodeRec(<<"n6">>, <<"Admin">>, S_Actor)
E_approves == EdgeRec(<<"n6">>, <<"n2">>, <<"approves">>)

GenNodeLists ==
    { <<R_user, R_admin, R_create, R_orders, R_valid, R_notify>>,
      <<R_create, R_valid, R_notify>>,
      <<R_user, R_audit, R_create, R_orders>>,
      <<R_audit, R_user, R_create>>,
      <<R_valid, R_user>>,
      <<R_orders>>,
      ManyRecs(1) }

GenEdgeRecs ==
    {E_submits, E_approves, E_feeds, E_calls, E_saves, E_checks, E_then,
     E_yes, E_no, E_yes2}

InitGen ==
    /\ pc = "code_generator"
    /\ infer = Pending
    /\ \E l \in GenNodeLists \cup {<<>>} :
          rectangles = IF l = <<>> THEN fallback_node ELSE MapNodes(JArr(l))
    /\ \E es \in SeqsUpTo(GenEdgeRecs, MaxEdges) : edges = MapEdges(JArr(es))
    /\ gemini_raw = <<>>
    /\ response = R_gemini
    /\ generated_code = <<>>
    /\ raised = NoRaise
    /\ http = NoHttp
    /\ NoExtract

NextGen ==
    \/ CodeGenNode
    \/ ChatReturn

SpecGen == InitGen /\ [][NextGen]_vars

(***************************************************************************)
(* The extractor on its own                                                *)
(***************************************************************************)
\* R_user with its keys in another order, with one more key, and with ids
\* that differ only as JSON number / JSON string.
R_user_reordered ==
    JObj(<<<<K_type, JStr(S_Actor)>>, <<K_label, JStr(<<"User">>)>>,
           <<K_id, JStr(<<"n1">>)>>>>)
R_user_bbox ==
    JObj(R_user.kv \o <<<<K_bbox, JArr(<<Num("1"), Num("2")>>)>>>>)
R_one_num ==
    JObj(<<<<K_id, Num("1")>>, <<K_label, JStr(<<"User">>)>>,
           <<K_type, JStr(S_Actor)>>>>)
R_one_str == NodeRec(<<"1">>, <<"User">>, S_Actor)

E_submits_again == EdgeRec(<<"n1">>, <<"n2">>, <<"sends">>)
E_bare == JObj(<<<<K_from, JStr(<<"n2">>)>>, <<K_to, JStr(<<"n3">>)>>>>)

ArrayRecs(keys) ==
    IF keys = NodeKeys
    THEN {R_user, R_user_reordered, R_user_bbox, R_one_num, R_one_str, R_create}
    ELSE {E_submits, E_submits_again, E_saves, E_bare}

\* A record whose label holds a closing brace, and one whose label holds a
\* balanced pair.
R_brace == NodeRec(<<"n7">>, <<"a", RBRACE, "b">>, S_Process)
R_braces == NodeRec(<<"n8">>, <<LBRACE, "x", RBRACE>>, S_Process)
\* A record that holds another record.
R_outer ==
    JObj(R_orders.kv \o <<<<<<"child">>, R_create>>>>)

Wrapped(rec) == JObj(<<<<<<"result">>, rec>>>>)

Src(shape, items) == [shape |-> shape, items |-> items]

\* shape, the records the text holds, the text.
EmbeddedInputs ==
    { <<Src("prose", <<R_create>>), InProse(Render(R_create, <<>>))>>,
      <<Src("prose", <<R_create, R_orders>>),
        InProse(Render(R_create, <<>>) \o <<SPACE, "and", SPACE>>
                \o Render(R_orders, <<SPACE>>))>>,
      <<Src("prose", <<R_user_bbox>>), InProse(Render(R_user_bbox, <<>>))>>,
      <<Src("prose", <<R_braces>>), InProse(Render(R_braces, <<>>))>>,
      <<Src("fenced", <<R_create>>), Fenced(InProse(Render(R_create, <<>>)))>>,
      <<Src("string_brace", <<R_brace>>), InProse(Render(R_brace, <<>>))>>,
      <<Src("string_brace", <<R_brace, R_create>>),
        InProse(Render(R_brace, <<>>) \o <<SPACE>> \o Render(R_create, <<>>))>>,
      <<Src("nested", <<R_create>>), Render(Wrapped(R_create), <<>>)>>,
      <<Src("nested", <<R_create>>), InProse(Render(Wrapped(R_create), <<>>))>>,
      <<Src("nested", <<R_orders, R_create>>), InProse(Render(R_outer, <<>>))>> }

InitExtract ==
    /\ pc = "extract"
    /\ infer = Pending
    /\ rectangles = <<>>
    /\ edges = <<>>
    /\ gemini_raw = <<>>
    /\ response = R_none
    /\ generated_code = <<>>
    /\ raised = NoRaise
    /\ http = NoHttp
    /\ x_out = <<>>
    /\ x_done = FALSE
    /\ \/ /\ x_keys \in {NodeKeys, EdgeKeys}
          /\ \E items \in SeqsUpTo(ArrayRecs(x_keys), MaxArr),
                sp \in {<<>>, <<SPACE>>} :
                /\ x_src = Src("array", items)
                /\ x_raw = Render(JArr(items), sp)
       \/ /\ x_keys = NodeKeys
          /\ \E inp \in EmbeddedInputs :
                /\ x_src = inp[1]
                /\ x_raw = inp[2]

Extract ==
    /\ pc = "extract"
    /\ x_out' = _parse_json_objects(x_raw, x_keys)
    /\ x_done' = TRUE
    /\ pc' = "extracted"
    /\ UNCHANGED <<infer, rectangles, edges, gemini_raw, response,
                   generated_code, raised, http, x_src, x_raw, x_keys>>

NextExtract == Extract

SpecExtract == InitExtract /\ [][NextExtract]_vars

(***************************************************************************)
(* Properties                                                              *)
(***************************************************************************)
IsTransientFailure ==
    infer.kind = "error" /\ infer.category \in TransientCategories
IsOtherFailure ==
    \/ infer.kind \in {"text", "none"}
    \/ infer.kind = "error" /\ infer.category \notin TransientCategories

\* C1: a failure of the inference call in the transient/quota category
\* (rate limit, service unavailable, model not found) ends the request
\* with the typed "unavailable" failure (status 503), never with a
\* placeholder graph returned as a success and never as a generic failure.
C1_TransientFailureIsTypedUnavailable ==
    (pc = "done" /\ IsTransientFailure) => http.status = 503

\* C2: a failure of the vision stage outside the transient/quota category
\* never makes vision_parser_node raise, whatever the text of the error
\* message: the request goes on to the explanation and code generation.
C2_OtherFailureNeverRaises ==
    IsOtherFailure => (~raised.is /\ pc # "except")

\* C3: when the vision stage hands on the placeholder node, the graph is
\* exactly the placeholder graph: that one node and no edge.
C3_PlaceholderNodeHasNoEdges ==
    (pc \in {"rag_engine", "code_generator", "return", "done"}
        /\ rectangles = fallback_node)
    => edges = fallback_edges

\* C4: unparsable upstream text with a successful inference call makes the
\* code generator run on the placeholder graph, and the generated code is
\* then the Fallback section and nothing else.
C4_PlaceholderGraphYieldsFallbackOnly ==
    (/\ pc \in {"return", "done"}
     /\ infer.kind = "text"
     /\ ~json_loads(strip_json_markdown(infer.text)).ok
     /\ rectangles = fallback_node
     /\ edges = fallback_edges)
    => (Len(generated_code) = 1 /\ generated_code[1].kind = "Fallback")

IsUnresolved(e) == ~HasId(rectangles, e.from) \/ ~HasId(rectangles, e.to)

\* C5: every edge the mapper accepted is in the final result, and an edge
\* with an endpoint that matches no node is there with its raw endpoint
\* strings and a marker that says it is unresolved.
C5_UnresolvedEdgesKeptAndFlagged ==
    (pc = "done" /\ http.status = 200)
    => /\ Len(http.edges) = Len(edges)
       /\ \A i \in 1..Len(http.edges) :
             /\ http.edges[i].from = edges[i].from
             /\ http.edges[i].to = edges[i].to
             /\ IsUnresolved(edges[i]) =>
                   /\ "unresolved" \in DOMAIN http.edges[i]
                   /\ http.edges[i]["unresolved"] = TRUE

\* The items at the positions of I, in order.
RECURSIVE Pick(_, _, _)
Pick(items, I, i) ==
    IF i > Len(items) THEN <<>>
    ELSE (IF i \in I THEN <<items[i]>> ELSE <<>>) \o Pick(items, I, i + 1)

\* The positions whose signature no earlier position has.
FirstOfSignature(items, keys) ==
    {i \in 1..Len(items) :
        \A j \in 1..(i - 1) :
            Signature(items[j], keys) # Signature(items[i], keys)}

\* C6: from a well-formed JSON array of records that all hold the required
\* keys, _parse_json_objects returns those records unchanged and in array
\* order, less every element whose signature over the required keys an
\* earlier element has; no record is returned twice.
C6_ArrayRecordsInOrderOncePerSignature ==
    (x_done /\ x_src.shape = "array")
    => /\ x_out = Pick(x_src.items, FirstOfSignature(x_src.items, x_keys), 1)
       /\ \A i, j \in 1..Len(x_out) : i # j => x_out[i] # x_out[j]

\* An array of three records of which one was dropped for its signature:
\* different records (a number id and a string id, or one more key) with
\* the same signature as an earlier one.
C6_Witness ==
    /\ x_done
    /\ x_src.shape = "array"
    /\ Len(x_src.items) = 3
    /\ Len(x_out) = 2
    /\ \A i, j \in 1..3 : i # j => x_src.items[i] # x_src.items[j]

Range(f) == {f[i] : i \in DOMAIN f}

\* C7: the balanced-block scan returns every balanced {...} block of the
\* text that is a record with the required keys, be it in prose, inside an
\* enclosing object, or with braces in its string values.
C7_EveryBalancedRecordFound ==
    (x_done /\ x_src.shape \in {"prose", "fenced", "string_brace", "nested"})
    => Range(x_src.items) \subseteq Range(x_out)

\* C8: the vision stage never emits more than 10 nodes, nor more than 10
\* edges.
C8_AtMostTenEmitted ==
    Len(rectangles) <= 10 /\ Len(edges) <= 10

IsService(section) == section.kind = "Service"

\* The endpoints of the service skeleton, one per Process node, in order.
Endpoints ==
    LET svc == SelectSeq(generated_code, IsService)
    IN  IF svc = <<>> THEN <<>> ELSE svc[1].endpoints
ProcessNodes == SelectSeq(rectangles, IsProcess)

\* The node an edge endpoint names is a node of the given type.
EndsAt(id, type) ==
    HasId(rectangles, id) /\ id_to_node(rectangles, id).type = type

\* C9: a Process node with an outgoing edge to a Decision node, at any
\* position among its outgoing edges, gets an if/else skeleton.
C9_DecisionEdgeAnywhereBranches ==
    (pc \in {"return", "done"})
    => /\ Len(Endpoints) = Len(ProcessNodes)
       /\ \A k \in 1..Len(ProcessNodes) :
             (\E i \in 1..Len(edges) :
                 /\ edges[i].from = ProcessNodes[k].id
                 /\ EndsAt(edges[i].to, S_Decision))
             => \E n \in 1..Len(Endpoints[k].logic_body) :
                    Endpoints[k].logic_body[n].op = "if"

\* The edges that end at proc and start at an Actor node (the node the
\* identity index gives for the edge's source).
ActorEdges(proc) ==
    {i \in 1..Len(edges) :
        edges[i].to = proc.id /\ EndsAt(edges[i].from, S_Actor)}

\* C10: the endpoint of a Process node has an actor parameter exactly when
\* some edge runs from an Actor node to it; the actor and the edge label
\* named are those of the first such edge in edge order, earlier incoming
\* edges from other or unknown sources notwithstanding; without such an
\* edge there is no parameter and the comment says no actor edge was
\* detected.
C10_ActorParameterFromFirstActorEdge ==
    (pc \in {"return", "done"})
    => /\ Len(Endpoints) = Len(ProcessNodes)
       /\ \A k \in 1..Len(ProcessNodes) :
             LET proc == ProcessNodes[k]
                 ep == Endpoints[k]
                 acts == ActorEdges(proc)
             IN  /\ (ep.actor_id_param # <<>>) <=> (acts # {})
                 /\ acts = {} =>
                       ep.actor_comment = <<"No direct actor edge detected">>
                 /\ \A i \in acts :
                       (\A j \in acts : i <= j) =>
                          LET actor == id_to_node(rectangles, edges[i].from)
                          IN  /\ ep.actor_comment =
                                    <<"Triggered by '">> \o actor.label
                                    \o <<"' via '">> \o edges[i].label \o <<"'">>
                              /\ SubSeq(ep.actor_id_param, 2, 1 + Len(actor.label))
                                    = Lower(safe_id(actor.label))
                              /\ SubSeq(ep.actor_id_param,
                                        Len(ep.actor_id_param) - Len(edges[i].label) + 1,
                                        Len(ep.actor_id_param)) = edges[i].label

\* A Process node whose first incoming edge is not from an Actor, whose
\* actor edge comes later, and whose endpoint has the actor parameter; and
\* a second actor edge after it.
C10_Witness ==
    /\ pc = "return"
    /\ \E k \in 1..Len(ProcessNodes) :
          LET acts == ActorEdges(ProcessNodes[k])
          IN  /\ k <= Len(Endpoints)
              /\ Endpoints[k].actor_id_param # <<>>
              /\ Cardinality(acts) >= 1
              /\ \E j \in 1..Len(edges) :
                    /\ edges[j].to = ProcessNodes[k].id
                    /\ j \notin acts
                    /\ \A i \in acts : j < i

\* The vision stage has handed its node list to the later stages.
HandedOver == pc \in {"rag_engine", "code_generator", "return", "done"}

\* C11: in the node list the vision stage hands to the explanation and
\* code-generation stages no two nodes have the same id.
C11_NodeIdentityUnique ==
    HandedOver
    => \A i, j \in 1..Len(rectangles) :
          i < j => rectangles[i].id # rectangles[j].id

SectionKinds == [i \in 1..Len(generated_code) |-> generated_code[i].kind]
HasSection(kind) == \E i \in 1..Len(generated_code) : generated_code[i].kind = kind
HasType(type) == \E i \in 1..Len(rectangles) : rectangles[i].type = type

\* C12: the Service section is emitted exactly when the graph has a Process
\* node; the Fallback section exactly when neither the Schema nor the
\* Service section was triggered; a graph with no Database and no Process
\* node yields the Fallback section alone, listing every node label and
\* every edge triple; sections come in the order Schema, Service, Fallback.
C12_ServiceIffProcessFallbackOtherwise ==
    (pc \in {"return", "done"})
    => /\ HasSection("Service") <=> HasType(S_Process)
       /\ HasSection("Fallback") <=> (~HasSection("Schema") /\ ~HasSection("Service"))
       /\ (~HasType(S_Database) /\ ~HasType(S_Process))
             => generated_code = <<FallbackSection(rectangles, edges)>>
       /\ SectionKinds \in {<<"Schema">>, <<"Service">>, <<"Fallback">>,
                            <<"Schema", "Service">>}

====
